---- MODULE Spec2Model ----
(***************************************************************************)
(* A model of pretty-printer.go: scan (the tokenizer) followed by          *)
(* colorizedPrint (the HTML renderer).  The input text is a Go string,     *)
(* modelled as a sequence of byte values; Go's 0-based indices are kept    *)
(* (At, Slice).  One action per case of scan's switch, per iteration of    *)
(* the string loop, and per token kind of colorizedPrint's switch.         *)
(***************************************************************************)
EXTENDS Integers, Sequences, FiniteSets, TLC

VARIABLES
    s,            \* scan's argument: the whole input text (bytes)
    pc,           \* "scan" | "string" | "scanned" | "render" | "done" | "panic"
    i,            \* scan's index i (0-based)
    start,        \* the string case's start (last flush point)
    result,       \* scan's result: the tokens appended so far
    insideArray,  \* scan's insideArray toggle
    fault,        \* which operation raised the run-time panic ("none" if none)
    k,            \* colorizedPrint: number of tokens already rendered
    braceCount,   \* colorizedPrint's braceCount
    out           \* standard output: one entry per Printf / printSpanTags call

vars == <<s, pc, i, start, result, insideArray, fault, k, braceCount, out>>

----------------------------------------------------------------------------
(* Token kinds (the iota block).  TRUE, FALSE and STRING are reserved in   *)
(* TLA+, so these three carry the prefix KIND_.                            *)
LEFT_BRACE == 0
RIGHT_BRACE == 1
LEFT_BRACKET == 2
RIGHT_BRACKET == 3
COLON == 4
OBJECT_COMMA == 5
ARRAY_COMMA == 6
KIND_TRUE == 7
KIND_FALSE == 8
NULL == 9
KIND_STRING == 10
ESCAPE == 11
NUMBER == 12
LETTER == 13
UNKNOWN == 14

kindColor(kind) ==
    CASE kind \in {LEFT_BRACE, RIGHT_BRACE} -> "rgb(60, 63, 163)"
      [] kind \in {LEFT_BRACKET, RIGHT_BRACKET} -> "rgb(232, 71, 162)"
      [] kind = COLON -> "rgb(75, 193, 183)"
      [] kind \in {OBJECT_COMMA, ARRAY_COMMA} -> "rgb(255, 177, 76)"
      [] kind \in {KIND_TRUE, KIND_FALSE, NULL} -> "rgb(198, 76, 255)"
      [] kind = KIND_STRING -> "rgb(232, 6, 6)"
      [] kind = ESCAPE -> "rgb(71, 155, 85)"
      [] kind = NUMBER -> "rgb(76, 135, 255)"
      [] OTHER -> "rgb(63, 79, 74)"

Token(kind, lexeme) == [kind |-> kind, lexeme |-> lexeme]

----------------------------------------------------------------------------
(* Byte values of the characters the code names.                           *)
CH_NEWLINE == 10
CH_SPACE == 32
CH_QUOTE == 34
CH_AMP == 38
CH_APOS == 39
CH_PLUS == 43
CH_COMMA == 44
CH_MINUS == 45
CH_DOT == 46
CH_COLON == 58
CH_SEMI == 59
CH_LT == 60
CH_GT == 62
CH_UPPER_E == 69
CH_LBRACKET == 91
CH_BACKSLASH == 92
CH_RBRACKET == 93
CH_a == 97
CH_e == 101
CH_f == 102
CH_g == 103
CH_l == 108
CH_m == 109
CH_n == 110
CH_o == 111
CH_p == 112
CH_q == 113
CH_r == 114
CH_s == 115
CH_t == 116
CH_u == 117
CH_LBRACE == 123
CH_RBRACE == 125

STR_true == <<CH_t, CH_r, CH_u, CH_e>>
STR_null == <<CH_n, CH_u, CH_l, CH_l>>
STR_false == <<CH_f, CH_a, CH_l, CH_s, CH_e>>

(* Go's s[j] and s[a:b] on a 1-based TLA+ sequence.  Both are used only    *)
(* where the code's index is in range; the actions raise the panic where   *)
(* it is not.                                                              *)
At(str, j) == str[j + 1]
Slice(str, a, b) == SubSeq(str, a + 1, b)

(* unicode.IsLetter / unicode.IsDigit of rune(c) for a byte c: the Latin-1 *)
(* range of Go's tables.                                                   *)
IsLetter(c) ==
    \/ c \in 65..90
    \/ c \in 97..122
    \/ c \in {170, 181, 186}
    \/ c \in 192..214
    \/ c \in 216..246
    \/ c \in 248..255

IsDigit(c) == c \in 48..57

isValidNumberCode(c) ==
    IsDigit(c) \/ c \in {CH_DOT, CH_e, CH_UPPER_E, CH_MINUS, CH_PLUS}

(* string(b) for a byte b: Go converts an integer to the UTF-8 encoding of *)
(* that code point, so a byte >= 0x80 becomes two bytes.                   *)
ByteToString(c) ==
    IF c < 128 THEN <<c>> ELSE <<192 + (c \div 64), 128 + (c % 64)>>

----------------------------------------------------------------------------
(* The inputs: every text made of at most Max... pieces of one of five     *)
(* vocabularies (structural characters, string and escape characters, the  *)
(* characters colorizedPrint escapes, letters and keywords, and the rest). *)
MaxStruct == 5
MaxString == 6
MaxEntity == 4
MaxWord == 4
MaxMisc == 3

RECURSIVE Flatten(_)
Flatten(ps) == IF ps = <<>> THEN <<>> ELSE Head(ps) \o Flatten(Tail(ps))

TextsOf(pieces, max) ==
    { Flatten(ps) : ps \in UNION { [1..m -> pieces] : m \in 0..max } }

StructPieces ==
    { <<c>> : c \in {CH_LBRACE, CH_RBRACE, CH_LBRACKET, CH_RBRACKET, CH_COMMA} }

\* <<49, 97, 70, 48>> is the four hex digits 1aF0
StringPieces ==
    { <<CH_QUOTE>>, <<CH_BACKSLASH>>, <<CH_u>>, <<49, 97, 70, 48>> }

EntityPieces ==
    { <<c>> : c \in {CH_QUOTE, CH_BACKSLASH, CH_LT, CH_GT, CH_AMP, CH_APOS} }

WordPieces ==
    { <<c>> : c \in {CH_t, CH_f, CH_e, CH_SPACE} }
        \cup {STR_true, STR_null, STR_false}

\* 49 is the digit 1; 233 is the Latin-1 letter e-acute; 169 is the Latin-1
\* copyright sign, neither a letter nor a digit
MiscPieces ==
    { <<c>> : c \in {CH_MINUS, 49, CH_e, CH_COLON, CH_SPACE, CH_NEWLINE, 169, 233} }

Inputs ==
    TextsOf(StructPieces, MaxStruct) \cup TextsOf(StringPieces, MaxString)
        \cup TextsOf(EntityPieces, MaxEntity) \cup TextsOf(WordPieces, MaxWord)
        \cup TextsOf(MiscPieces, MaxMisc)

Init ==
    /\ s \in Inputs
    /\ pc = "scan"
    /\ i = 0
    /\ start = 0
    /\ result = <<>>
    /\ insideArray = FALSE
    /\ fault = "none"
    /\ k = 0
    /\ braceCount = 0
    /\ out = <<>>

----------------------------------------------------------------------------
(* scan                                                                    *)

renderVars == <<k, braceCount, out>>

\* a run-time panic (index or slice bounds out of range): the program dies
Panic(what) ==
    /\ pc' = "panic"
    /\ fault' = what

\* one single-character token: append and i++
Emit(kind) ==
    /\ result' = Append(result, Token(kind, <<At(s, i)>>))
    /\ i' = i + 1
    /\ UNCHANGED <<s, pc, start, fault, renderVars>>

InScan == pc = "scan" /\ i < Len(s)

ScanSpace ==
    /\ InScan
    /\ At(s, i) = CH_SPACE
    /\ i' = i + 1
    /\ UNCHANGED <<s, pc, start, result, insideArray, fault, renderVars>>

ScanLeftBrace ==
    /\ InScan
    /\ At(s, i) = CH_LBRACE
    /\ Emit(LEFT_BRACE)
    /\ UNCHANGED insideArray

ScanRightBrace ==
    /\ InScan
    /\ At(s, i) = CH_RBRACE
    /\ Emit(RIGHT_BRACE)
    /\ UNCHANGED insideArray

ScanLeftBracket ==
    /\ InScan
    /\ At(s, i) = CH_LBRACKET
    /\ insideArray' = ~insideArray
    /\ Emit(LEFT_BRACKET)

ScanRightBracket ==
    /\ InScan
    /\ At(s, i) = CH_RBRACKET
    /\ insideArray' = ~insideArray
    /\ Emit(RIGHT_BRACKET)

ScanObjectComma ==
    /\ InScan
    /\ At(s, i) = CH_COMMA /\ ~insideArray
    /\ Emit(OBJECT_COMMA)
    /\ UNCHANGED insideArray

ScanArrayComma ==
    /\ InScan
    /\ At(s, i) = CH_COMMA /\ insideArray
    /\ Emit(ARRAY_COMMA)
    /\ UNCHANGED insideArray

ScanColon ==
    /\ InScan
    /\ At(s, i) = CH_COLON
    /\ Emit(COLON)
    /\ UNCHANGED insideArray

\* a scan that starts the first fragment after the opening quote
StringStart_afterQuote(j) == j + 1

(* The string case.  start := i keeps the opening quote in the first       *)
(* fragment; the loop then runs one iteration per action.                  *)
StringStart(j) == j

ScanStringOpen ==
    /\ InScan
    /\ At(s, i) = CH_QUOTE
    /\ start' = StringStart(i)
    /\ i' = i + 1
    /\ pc' = "string"
    /\ UNCHANGED <<s, result, insideArray, fault, renderVars>>

InString == pc = "string" /\ i < Len(s) /\ At(s, i) # CH_QUOTE

StringChar ==
    /\ InString
    /\ At(s, i) # CH_BACKSLASH
    /\ i' = i + 1
    /\ UNCHANGED <<s, pc, start, result, insideArray, fault, renderVars>>

\* a \u escape taken one character short
EscapeEnd_short(str, j) == IF At(str, j) = CH_u THEN j + 4 ELSE j + 1

\* the index after an escape whose second character is at j
EscapeEnd(str, j) == IF At(str, j) = CH_u THEN j + 5 ELSE j + 1

\* a flush that drops an empty fragment
FlushFragment_skipEmpty(res, str, from, j) ==
    IF from = j THEN res ELSE Append(res, Token(KIND_STRING, Slice(str, from, j)))

\* the fragment flushed when the loop meets a backslash at j
FlushFragment(res, str, from, j) ==
    Append(res, Token(KIND_STRING, Slice(str, from, j)))

StringEscape ==
    /\ InString
    /\ At(s, i) = CH_BACKSLASH
    /\ LET flushed == FlushFragment(result, s, start, i)
       IN  IF i + 1 >= Len(s)
           THEN \* s[i] after i++: index out of range
                /\ Panic("index")
                /\ result' = flushed
                /\ i' = i + 1
                /\ start' = i
           ELSE LET e == EscapeEnd(s, i + 1)
                IN  IF e > Len(s)
                    THEN \* s[start:i] after i += 5: slice bounds out of range
                         /\ Panic("slice_escape")
                         /\ result' = flushed
                         /\ i' = e
                         /\ start' = i
                    ELSE /\ result' = Append(flushed, Token(ESCAPE, Slice(s, i, e)))
                         /\ i' = e
                         /\ start' = e
                         /\ UNCHANGED <<pc, fault>>
    /\ UNCHANGED <<s, insideArray, renderVars>>

\* the loop has ended (closing quote, or end of input): i++ and the last fragment
StringClose ==
    /\ pc = "string"
    /\ IF i < Len(s) THEN At(s, i) = CH_QUOTE ELSE TRUE
    /\ i' = i + 1
    /\ IF i + 1 > Len(s)
       THEN \* s[start:i] with i = n + 1: slice bounds out of range
            /\ Panic("slice_string")
            /\ UNCHANGED result
       ELSE /\ result' = Append(result, Token(KIND_STRING, Slice(s, start, i + 1)))
            /\ pc' = "scan"
            /\ UNCHANGED fault
    /\ UNCHANGED <<s, start, insideArray, renderVars>>

(* The letter case.  Each operator gives the outcome of one clause of the  *)
(* inner switch at index j: a panic, or the token and the new index.       *)
RECURSIVE LetterRunEnd(_, _)
LetterRunEnd(str, j) ==
    IF j < Len(str) /\ IsLetter(At(str, j)) THEN LetterRunEnd(str, j + 1) ELSE j

Matched(kind, str, j, len) ==
    [panic |-> FALSE, i |-> j + len, tok |-> Token(kind, Slice(str, j, j + len))]

\* default: the run of letters
LetterDefault(str, j) ==
    [panic |-> FALSE, i |-> LetterRunEnd(str, j),
     tok |-> Token(LETTER, Slice(str, j, LetterRunEnd(str, j)))]

\* the body of "case i+4 < n && s[i] == 'f'", which fallthrough also enters
\* without evaluating that condition
FalseClause(str, j) ==
    IF j + 5 > Len(str)
    THEN [panic |-> TRUE, i |-> j, tok |-> Token(LETTER, <<>>)]
    ELSE IF Slice(str, j, j + 5) = STR_false
         THEN Matched(KIND_FALSE, str, j, 5)
         ELSE LetterDefault(str, j)

\* a clause that compares against true only
TrueNullClause_trueOnly(str, j) ==
    IF Slice(str, j, j + 4) = STR_true
    THEN Matched(KIND_TRUE, str, j, 4)
    ELSE FalseClause(str, j)

\* the body of "case i+3 < n && (s[i] == 't' || s[i] == 'n')"
TrueNullClause(str, j) ==
    IF Slice(str, j, j + 4) = STR_true
    THEN Matched(KIND_TRUE, str, j, 4)
    ELSE IF Slice(str, j, j + 4) = STR_null
         THEN Matched(NULL, str, j, 4)
         ELSE FalseClause(str, j)

LetterCase(str, j) ==
    IF j + 3 < Len(str) /\ At(str, j) \in {CH_t, CH_n}
    THEN TrueNullClause(str, j)
    ELSE IF j + 4 < Len(str) /\ At(str, j) = CH_f
         THEN FalseClause(str, j)
         ELSE LetterDefault(str, j)

ScanLetter ==
    /\ InScan
    /\ IsLetter(At(s, i))
    /\ LET r == LetterCase(s, i)
       IN  IF r.panic
           THEN \* s[i:i+5] past the end: slice bounds out of range
                /\ Panic("slice_literal")
                /\ UNCHANGED <<i, result>>
           ELSE /\ i' = r.i
                /\ result' = Append(result, r.tok)
                /\ UNCHANGED <<pc, fault>>
    /\ UNCHANGED <<s, start, insideArray, renderVars>>

RECURSIVE NumberEnd(_, _)
NumberEnd(str, j) ==
    IF j < Len(str) /\ isValidNumberCode(At(str, j)) THEN NumberEnd(str, j + 1) ELSE j

ScanNumber ==
    /\ InScan
    /\ At(s, i) = CH_MINUS \/ IsDigit(At(s, i))
    /\ i' = NumberEnd(s, i)
    /\ result' = Append(result, Token(NUMBER, Slice(s, i, NumberEnd(s, i))))
    /\ UNCHANGED <<s, pc, start, insideArray, fault, renderVars>>

\* the characters the earlier cases of the switch take
Claimed(c) ==
    \/ c \in {CH_SPACE, CH_LBRACE, CH_RBRACE, CH_LBRACKET, CH_RBRACKET,
              CH_COMMA, CH_COLON, CH_QUOTE, CH_MINUS}
    \/ IsLetter(c)
    \/ IsDigit(c)

ScanUnknown ==
    /\ InScan
    /\ ~Claimed(At(s, i))
    /\ result' = Append(result, Token(UNKNOWN, ByteToString(At(s, i))))
    /\ i' = i + 1
    /\ UNCHANGED <<s, pc, start, insideArray, fault, renderVars>>

\* the for loop ends: scan returns result to main
ScanReturn ==
    /\ pc = "scan"
    /\ i >= Len(s)
    /\ pc' = "scanned"
    /\ UNCHANGED <<s, i, start, result, insideArray, fault, renderVars>>

ScanNext ==
    \/ ScanSpace \/ ScanLeftBrace \/ ScanRightBrace
    \/ ScanLeftBracket \/ ScanRightBracket
    \/ ScanObjectComma \/ ScanArrayComma \/ ScanColon
    \/ ScanStringOpen \/ StringChar \/ StringEscape \/ StringClose
    \/ ScanLetter \/ ScanNumber \/ ScanUnknown \/ ScanReturn

----------------------------------------------------------------------------
(* colorizedPrint.  out holds one entry per call that writes: fn is the    *)
(* call, text the bytes written between the tags (for printSpanTags, the   *)
(* lexeme argument as given, which %s writes unchanged).                   *)

\* fmt.Printf of a literal; the two container tags are written as "open"/"close"
Printf(text) == [fn |-> "Printf", color |-> "", text |-> text]
PrintfOpen == [fn |-> "open", color |-> "", text |-> <<>>]
PrintfClose == [fn |-> "close", color |-> "", text |-> <<>>]

printSpanTags(color, lexeme) ==
    [fn |-> "printSpanTags", color |-> color, text |-> lexeme]

\* for i := 0; i < num; i++ { fmt.Printf("  ") }
RECURSIVE IndentLoop(_, _)
IndentLoop(j, num) ==
    IF j < num
    THEN <<Printf(<<CH_SPACE, CH_SPACE>>)>> \o IndentLoop(j + 1, num)
    ELSE <<>>

\* a loop that runs while i <= num
printIndent_inclusive(num) == IndentLoop(0, num + 1)

printIndent(num) == IndentLoop(0, num)

ENT_lt == <<CH_AMP, CH_l, CH_t, CH_SEMI>>
ENT_gt == <<CH_AMP, CH_g, CH_t, CH_SEMI>>
ENT_amp == <<CH_AMP, CH_a, CH_m, CH_p, CH_SEMI>>
ENT_quot == <<CH_AMP, CH_q, CH_u, CH_o, CH_t, CH_SEMI>>
ENT_apos == <<CH_AMP, CH_a, CH_p, CH_o, CH_s, CH_SEMI>>

\* the switch on t.lexeme[i] of the STRING case
EscapeChar(c) ==
    CASE c = CH_LT -> ENT_lt
      [] c = CH_GT -> ENT_gt
      [] c = CH_AMP -> ENT_amp
      [] c = CH_QUOTE -> ENT_quot
      [] c = CH_APOS -> ENT_apos
      [] OTHER -> ByteToString(c)

\* the STRING case: one span per character of the lexeme
RECURSIVE StringSpans(_, _)
StringSpans(color, lexeme) ==
    IF lexeme = <<>>
    THEN <<>>
    ELSE <<printSpanTags(color, EscapeChar(Head(lexeme)))>>
             \o StringSpans(color, Tail(lexeme))

\* the default case: the lexeme in one span, as it is
PlainSpan(t) == <<printSpanTags(kindColor(t.kind), t.lexeme)>>

scanVars == <<s, i, start, result, insideArray, fault>>

\* main hands scan's result to colorizedPrint, which opens the container
ColorizedPrintBegin ==
    /\ pc = "scanned"
    /\ pc' = "render"
    /\ out' = <<PrintfOpen>>
    /\ braceCount' = 0
    /\ k' = 0
    /\ UNCHANGED scanVars

\* the token the range loop is at
Cur == result[k + 1]

InRender(kinds) == pc = "render" /\ k < Len(result) /\ Cur.kind \in kinds

Rendered(chunks) ==
    /\ out' = out \o chunks
    /\ k' = k + 1
    /\ UNCHANGED <<pc, scanVars>>

NL == Printf(<<CH_NEWLINE>>)
SP == Printf(<<CH_SPACE>>)

RenderLeftBrace ==
    /\ InRender({LEFT_BRACE})
    /\ braceCount' = braceCount + 1
    /\ Rendered(<<NL>> \o printIndent(braceCount) \o PlainSpan(Cur)
                    \o <<NL>> \o printIndent(braceCount + 1))

RenderRightBrace ==
    /\ InRender({RIGHT_BRACE})
    /\ braceCount' = braceCount - 1
    /\ Rendered(<<NL>> \o printIndent(braceCount - 1) \o PlainSpan(Cur)
                    \o <<NL>> \o printIndent(braceCount - 1))

RenderColon ==
    /\ InRender({COLON})
    /\ Rendered(<<SP>> \o PlainSpan(Cur) \o <<SP>>)
    /\ UNCHANGED braceCount

RenderObjectComma ==
    /\ InRender({OBJECT_COMMA})
    /\ Rendered(PlainSpan(Cur) \o <<NL>> \o printIndent(braceCount))
    /\ UNCHANGED braceCount

RenderArrayComma ==
    /\ InRender({ARRAY_COMMA})
    /\ Rendered(PlainSpan(Cur) \o <<SP>>)
    /\ UNCHANGED braceCount

RenderString ==
    /\ InRender({KIND_STRING})
    /\ Rendered(StringSpans(kindColor(Cur.kind), Cur.lexeme))
    /\ UNCHANGED braceCount

RenderUnknown ==
    /\ InRender({UNKNOWN})
    /\ Rendered(<<>>)
    /\ UNCHANGED braceCount

RenderDefault ==
    /\ InRender({LEFT_BRACKET, RIGHT_BRACKET, KIND_TRUE, KIND_FALSE, NULL,
                 ESCAPE, NUMBER, LETTER})
    /\ Rendered(PlainSpan(Cur))
    /\ UNCHANGED braceCount

\* the range loop ends: the container is closed
ColorizedPrintEnd ==
    /\ pc = "render"
    /\ k >= Len(result)
    /\ pc' = "done"
    /\ out' = Append(out, PrintfClose)
    /\ UNCHANGED <<scanVars, k, braceCount>>

RenderNext ==
    \/ ColorizedPrintBegin
    \/ RenderLeftBrace \/ RenderRightBrace \/ RenderColon
    \/ RenderObjectComma \/ RenderArrayComma
    \/ RenderString \/ RenderUnknown \/ RenderDefault
    \/ ColorizedPrintEnd

Next == ScanNext \/ RenderNext

Spec == Init /\ [][Next]_vars

----------------------------------------------------------------------------
(* Properties.                                                             *)

\* scan has returned its result to main
Returned == pc \in {"scanned", "render", "done"}

RECURSIVE Lexemes(_)
Lexemes(toks) ==
    IF toks = <<>> THEN <<>> ELSE Head(toks).lexeme \o Lexemes(Tail(toks))

Has(text, c) == \E j \in 1..Len(text) : text[j] = c

\* C1: an input whose string region reaches the end of input before a
\* closing quote (also right after a backslash, or inside a \u escape) never
\* makes scan fail with an out-of-range access.
C1_UnterminatedStringDoesNotFail ==
    fault \notin {"index", "slice_escape", "slice_string"}

\* C2: the comparisons of a letter run against true, null and false never
\* read past the end of input: scan does not fail there and returns normally.
C2_LiteralComparisonInRange ==
    fault # "slice_literal"

Specials == {CH_LT, CH_GT, CH_AMP, CH_QUOTE, CH_APOS}
Entities == {ENT_lt, ENT_gt, ENT_amp, ENT_quot, ENT_apos}

\* C3: when the pipeline completes, nothing written for a token of a string
\* literal (a span in the STRING or the ESCAPE colour) holds one of the
\* characters < > & " ' raw: each is written as its named entity.
C3_StringSpecialsAreEntities ==
    pc = "done" =>
        \A j \in 1..Len(out) :
            out[j].color \in {kindColor(KIND_STRING), kindColor(ESCAPE)} =>
                \/ out[j].text \in Entities
                \/ \A c \in Specials : ~Has(out[j].text, c)

\* the brackets and braces still open after the tokens toks, innermost last
\* (a closing token closes the innermost open one)
RECURSIVE OpenAfter(_)
OpenAfter(toks) ==
    IF toks = <<>>
    THEN <<>>
    ELSE LET before == OpenAfter(SubSeq(toks, 1, Len(toks) - 1))
             last == toks[Len(toks)].kind
         IN  IF last \in {LEFT_BRACE, LEFT_BRACKET}
             THEN Append(before, last)
             ELSE IF last \in {RIGHT_BRACE, RIGHT_BRACKET} /\ before # <<>>
                  THEN SubSeq(before, 1, Len(before) - 1)
                  ELSE before

InnermostIsArray(toks) ==
    OpenAfter(toks) # <<>> /\ OpenAfter(toks)[Len(OpenAfter(toks))] = LEFT_BRACKET

IsComma(t) == t.kind \in {OBJECT_COMMA, ARRAY_COMMA}

\* C4: a comma whose innermost enclosing bracket pair is [ ... ], at any
\* nesting depth, is rendered as the coloured comma followed by one space and
\* no newline.
C4_ArrayCommaStaysOnLine ==
    [][(pc = "render" /\ k < Len(result) /\ IsComma(result[k + 1])
            /\ InnermostIsArray(SubSeq(result, 1, k)))
        => out' = out \o <<printSpanTags(kindColor(ARRAY_COMMA), <<CH_COMMA>>), SP>>]_vars

\* text is full with some of its plain spaces removed and nothing else changed
RECURSIVE IsSpaceDeletion(_, _)
IsSpaceDeletion(text, full) ==
    IF full = <<>>
    THEN text = <<>>
    ELSE IF text # <<>> /\ Head(text) = Head(full)
         THEN IsSpaceDeletion(Tail(text), Tail(full))
         ELSE Head(full) = CH_SPACE /\ IsSpaceDeletion(text, Tail(full))

\* C8: when scan returns, the lexemes of the returned tokens, concatenated in
\* order, are the input with skipped plain spaces removed and nothing else
\* dropped, added or reordered.
C8_LexemesReconstructInput ==
    Returned => IsSpaceDeletion(Lexemes(result), s)

Count(toks, kinds) == Cardinality({j \in 1..Len(toks) : toks[j].kind \in kinds})

\* LEFT_BRACE tokens minus RIGHT_BRACE tokens among the first m tokens
BraceDepth(m) ==
    Count(SubSeq(result, 1, m), {LEFT_BRACE}) - Count(SubSeq(result, 1, m), {RIGHT_BRACE})

RECURSIVE Written(_)
Written(chunks) ==
    IF chunks = <<>> THEN <<>> ELSE Head(chunks).text \o Written(Tail(chunks))

\* two spaces per level, nothing below level 1
Indentation(d) == [j \in 1..(IF d > 0 THEN 2 * d ELSE 0) |-> CH_SPACE]

\* what one token adds to the output
NewOutput == SubSeq(out', Len(out) + 1, Len(out'))

\* the text a token at brace depth d must add, for the kinds that indent
IndentedText(t, d) ==
    CASE t.kind = LEFT_BRACE ->
            <<CH_NEWLINE>> \o Indentation(d) \o t.lexeme
                \o <<CH_NEWLINE>> \o Indentation(d + 1)
      [] t.kind = RIGHT_BRACE ->
            <<CH_NEWLINE>> \o Indentation(d - 1) \o t.lexeme
                \o <<CH_NEWLINE>> \o Indentation(d - 1)
      [] t.kind = OBJECT_COMMA ->
            t.lexeme \o <<CH_NEWLINE>> \o Indentation(d)

\* C5: while rendering any token sequence, depth is 0 at the start and after
\* each token is the number of LEFT_BRACE tokens minus the number of
\* RIGHT_BRACE tokens rendered so far; every indentation written is two spaces
\* per depth level, and nothing (without failing) when the depth is negative.
C5_DepthCountsBraces ==
    /\ [](pc \in {"render", "done"} => braceCount = BraceDepth(k))
    /\ [][(pc = "render" /\ k < Len(result))
            => /\ pc' = "render" /\ k' = k + 1
               /\ result[k + 1].kind \in {LEFT_BRACE, RIGHT_BRACE, OBJECT_COMMA}
                    => Written(NewOutput) = IndentedText(result[k + 1], BraceDepth(k))
               /\ result[k + 1].kind \notin {LEFT_BRACE, RIGHT_BRACE, OBJECT_COMMA}
                    => \A j \in 1..Len(NewOutput) :
                           NewOutput[j].text # <<CH_SPACE, CH_SPACE>>]_vars

\* rendered to the end, through depth 2 and down to depth -1
C5_Witness ==
    /\ pc = "done"
    /\ braceCount = -1
    /\ \E m \in 1..Len(result) : BraceDepth(m) = 2
    /\ result[Len(result)].kind = RIGHT_BRACE

IsHex(c) == c \in 48..57 \/ c \in 65..70 \/ c \in 97..102

\* the string loop is at a backslash followed by u and four hex digits
AtUnicodeEscape ==
    /\ pc = "string"
    /\ i + 5 < Len(s)
    /\ At(s, i) = CH_BACKSLASH
    /\ At(s, i + 1) = CH_u
    /\ \A d \in 2..5 : IsHex(At(s, i + d))

\* C6: for a \uXXXX escape inside a string (backslash, u, four hex digits)
\* scan emits exactly one ESCAPE token, whose lexeme is those 6 characters,
\* and goes on scanning the string right after them.
C6_UnicodeEscapeIsOneToken ==
    [][AtUnicodeEscape =>
        /\ Len(result') = Len(result) + 2
        /\ SubSeq(result', 1, Len(result)) = result
        /\ result'[Len(result) + 1].kind = KIND_STRING
        /\ result'[Len(result) + 2] = Token(ESCAPE, SubSeq(s, i + 1, i + 6))
        /\ i' = i + 6 /\ start' = i + 6 /\ pc' = "string"]_vars

\* a returned \u1aF0 ESCAPE token with string text before or after it
C6_Witness ==
    /\ Returned
    /\ \E j \in 2..(Len(result) - 1) :
          /\ result[j] = Token(ESCAPE, <<CH_BACKSLASH, CH_u, 49, 97, 70, 48>>)
          /\ Len(result[j - 1].lexeme) + Len(result[j + 1].lexeme) > 2

\* C7: when scan returns, no STRING lexeme holds a backslash; every ESCAPE
\* token starts at a backslash and stands between two STRING tokens (the
\* fragment before it is emitted even when empty), so the STRING tokens
\* outnumber the ESCAPE tokens by one per string literal (two delimiting
\* quotes each).
C7_EscapesSplitStrings ==
    Returned =>
        /\ \A j \in 1..Len(result) :
              /\ result[j].kind = KIND_STRING => ~Has(result[j].lexeme, CH_BACKSLASH)
              /\ result[j].kind = ESCAPE =>
                    /\ result[j].lexeme[1] = CH_BACKSLASH
                    /\ j > 1 /\ result[j - 1].kind = KIND_STRING
                    /\ j < Len(result) /\ result[j + 1].kind = KIND_STRING
        /\ LET strings == {j \in 1..Len(result) : result[j].kind = KIND_STRING}
               quotes == {<<j, p>> \in strings \X (1..Len(s)) :
                             /\ p <= Len(result[j].lexeme)
                             /\ result[j].lexeme[p] = CH_QUOTE}
           IN  2 * (Cardinality(strings) - Count(result, {ESCAPE}))
                   = Cardinality(quotes)

\* two escapes side by side: the fragment between them is empty, and emitted
C7_Witness ==
    /\ Returned
    /\ \E j \in 2..(Len(result) - 1) :
          /\ result[j] = Token(KIND_STRING, <<>>)
          /\ result[j - 1].kind = ESCAPE
          /\ result[j + 1].kind = ESCAPE

\* the first / the last STRING fragment of its literal
FirstFragment(j) == j = 1 \/ result[j - 1].kind # ESCAPE
LastFragment(j) == j = Len(result) \/ result[j + 1].kind # ESCAPE

\* C9 as stated: no STRING token of a terminated string literal has the
\* delimiting quote character in its lexeme.
C9_QuotesNotInLexemes ==
    Returned =>
        \A j \in 1..Len(result) :
            result[j].kind = KIND_STRING => ~Has(result[j].lexeme, CH_QUOTE)

\* C9 amended: the delimiting quotes are consumed and kept: the first STRING
\* fragment of a literal begins with the opening quote, the final one ends
\* with the closing quote, a STRING lexeme has no other quote, and the final
\* fragment is the raw text from the last flush point through the closing quote.
C9_QuotesKeptInOuterFragments ==
    /\ [](Returned =>
            \A j \in 1..Len(result) :
                result[j].kind = KIND_STRING =>
                    LET lex == result[j].lexeme
                    IN  /\ FirstFragment(j) => Len(lex) >= 1 /\ lex[1] = CH_QUOTE
                        /\ LastFragment(j) => Len(lex) >= 1 /\ lex[Len(lex)] = CH_QUOTE
                        /\ FirstFragment(j) /\ LastFragment(j) => Len(lex) >= 2
                        /\ \A p \in 1..Len(lex) :
                              lex[p] = CH_QUOTE =>
                                  \/ FirstFragment(j) /\ p = 1
                                  \/ LastFragment(j) /\ p = Len(lex))
    /\ [][(pc = "string" /\ i < Len(s) /\ At(s, i) = CH_QUOTE)
            => result' = Append(result, Token(KIND_STRING, SubSeq(s, start + 1, i + 1)))]_vars

\* a literal with an escape: its last fragment has text and the closing quote
C9_Witness ==
    /\ Returned
    /\ \E j \in 2..Len(result) :
          /\ result[j].kind = KIND_STRING
          /\ result[j - 1].kind = ESCAPE
          /\ LastFragment(j)
          /\ Len(result[j].lexeme) >= 2

StartsWith(str, j, w) ==
    j + Len(w) <= Len(str) /\ SubSeq(str, j + 1, j + Len(w)) = w

\* where the maximal run of letters that holds index j ends
RunEndOf(str, j) ==
    CHOOSE e \in j..Len(str) :
        /\ \A p \in j..(e - 1) : IsLetter(At(str, p))
        /\ e < Len(str) => ~IsLetter(At(str, e))

KeywordOrRun(run) ==
    IF run = STR_true THEN Token(KIND_TRUE, run)
    ELSE IF run = STR_null THEN Token(NULL, run)
    ELSE IF run = STR_false THEN Token(KIND_FALSE, run)
    ELSE Token(LETTER, run)

AtLetter == pc = "scan" /\ i < Len(s) /\ IsLetter(At(s, i))

\* C10 as stated: for a maximal run of letters outside a string, scan emits
\* exactly one token: the keyword token when the run is exactly true, false or
\* null, and otherwise one LETTER token holding the whole run (checked on the
\* steps that emit a token).
C10_OneTokenPerRun ==
    [][(AtLetter /\ (i = 0 \/ ~IsLetter(At(s, i - 1))) /\ pc' # "panic")
        => /\ result' = Append(result, KeywordOrRun(Slice(s, i, RunEndOf(s, i))))
           /\ i' = RunEndOf(s, i)]_vars

\* C10 amended: where scan meets a letter outside a string, a text that
\* begins with true, null or false gives that keyword token for exactly those
\* characters, also when more letters follow (the run is split after the
\* keyword); any other text gives one LETTER token holding all consecutive
\* letters from there, except where the comparison of C2 fails (first letter
\* t or n with exactly four characters left): there no token is emitted.
C10_KeywordPrefixOrRun ==
    [][AtLetter =>
        IF StartsWith(s, i, STR_true)
        THEN result' = Append(result, Token(KIND_TRUE, STR_true)) /\ i' = i + 4
        ELSE IF StartsWith(s, i, STR_null)
        THEN result' = Append(result, Token(NULL, STR_null)) /\ i' = i + 4
        ELSE IF StartsWith(s, i, STR_false)
        THEN result' = Append(result, Token(KIND_FALSE, STR_false)) /\ i' = i + 5
        ELSE IF At(s, i) \in {CH_t, CH_n} /\ i + 4 = Len(s)
        THEN pc' = "panic" /\ result' = result
        ELSE /\ result' = Append(result, Token(LETTER, Slice(s, i, RunEndOf(s, i))))
             /\ i' = RunEndOf(s, i)
             /\ pc' = "scan"]_vars

\* a run that begins with a keyword, split: the keyword, then the other letters
C10_Witness ==
    /\ Returned
    /\ Lexemes(result) = s
    /\ \E j \in 1..(Len(result) - 1) :
          /\ result[j].kind \in {KIND_TRUE, NULL, KIND_FALSE}
          /\ result[j + 1].kind = LETTER

====
